---- MODULE Spec2Model ----
(***************************************************************************)
(* Model of the yewtube Player component (src/src/component.rs) and of the *)
(* YouTube iframe API bootstrap and bindings (src/src/ext.rs).             *)
(*                                                                         *)
(* Each action is one turn of the single-threaded event loop: a browser    *)
(* event (script load, API ready signal, widget event, component creation  *)
(* or destruction) together with the Rust code that runs to completion in  *)
(* it, including the Player::update call the emitted message causes.       *)
(*                                                                         *)
(* The foreign constructor YT.Player is modelled by its declared           *)
(* signature (ext.rs:149-150): a call is logged and a handle is returned.  *)
(***************************************************************************)
EXTENDS Integers, Sequences, FiniteSets, TLC

\* ----------------------------------------------------------------- bounds
NumCtrls == 2        \* Player components mounted in the page
MaxEvents == 2       \* onStateChange events the widgets fire, in total
MaxHostMsgs == 4     \* messages sent through a component's link by its host
MaxHalf == 12        \* translated numbers range over -MaxHalf/2..MaxHalf/2

MaxDim == 3          \* widths and heights range over 1..MaxDim

Ctrls == 1..NumCtrls

\* ------------------------------------------------------- ext::PlayerState
PlaybackStates == {"Unstarted", "Ended", "Playing", "Paused", "Buffering", "Cued"}

\* limits of the `state as i32` cast
I32Max == 2147483647
I32Min == -I32Max - 1

\* The `data` field of a foreign event.  A number is kept as twice its value
\* (h), so that 3/2 is h = 3.  "huge" is an integer beyond the i32 range
\* (h is its sign), "nan" is NaN, "undef" is a data field that is no number.
Num(h) == [t |-> "num", h |-> h]
Huge(sign) == [t |-> "huge", h |-> sign]
NaN == [t |-> "nan", h |-> 0]
Undef == [t |-> "undef", h |-> 0]
Payloads ==
    {Num(h) : h \in (-MaxHalf..MaxHalf) \cup {2 * 99}}
        \cup {Huge(1), Huge(-1), NaN, Undef}

\* the payloads the widgets of the model fire: Playing, Paused, the unknown 4
EventPayloads == {Num(2 * 1), Num(2 * 2), Num(2 * 4)}

IsInteger(p) == p.t = "huge" \/ (p.t = "num" /\ p.h % 2 = 0)

\* JsValue::as_f64 followed by `as i32`: the cast truncates toward zero,
\* saturates at the i32 limits and turns NaN into 0
AsI32(p) ==
    CASE p.t = "nan" -> 0
      [] p.t = "huge" -> IF p.h > 0 THEN I32Max ELSE I32Min
      [] OTHER -> IF p.h >= 0 THEN p.h \div 2 ELSE -((-p.h) \div 2)

Ok(s) == [ok |-> TRUE, v |-> s]
Err(e) == [ok |-> FALSE, v |-> e]

\* variant: Cued numbered 4, as if the codes were contiguous
MatchCodeContiguous(n) ==
    CASE n = -1 -> Ok("Unstarted")
      [] n = 0 -> Ok("Ended")
      [] n = 1 -> Ok("Playing")
      [] n = 2 -> Ok("Paused")
      [] n = 3 -> Ok("Buffering")
      [] n = 4 -> Ok("Cued")
      [] OTHER -> Err("invalid player state")

\* the match of try_from (ext.rs:132-140)
MatchCode(n) ==
    CASE n = -1 -> Ok("Unstarted")
      [] n = 0 -> Ok("Ended")
      [] n = 1 -> Ok("Playing")
      [] n = 2 -> Ok("Paused")
      [] n = 3 -> Ok("Buffering")
      [] n = 5 -> Ok("Cued")
      [] OTHER -> Err("invalid player state")

\* impl TryFrom<JsValue> for PlayerState
TryFrom(p) ==
    IF p.t = "undef" THEN Err("invalid player state") ELSE MatchCode(AsI32(p))

\* Player::get_player_state, over the i32 the widget returns: the same
\* table, with a panic for every other code
GetPlayerState(n) ==
    CASE n = -1 -> Ok("Unstarted")
      [] n = 0 -> Ok("Ended")
      [] n = 1 -> Ok("Playing")
      [] n = 2 -> Ok("Paused")
      [] n = 3 -> Ok("Buffering")
      [] n = 5 -> Ok("Cued")
      [] OTHER -> Err("panic: unknown player state")

\* ------------------------------------------------------------ component::Msg
MsgInitialized == [kind |-> "Initialized", arg |-> "-"]
MsgReady == [kind |-> "Ready", arg |-> "-"]
MsgPlayerStateChange(s) == [kind |-> "PlayerStateChange", arg |-> s]
MsgFailed(e) == [kind |-> "Failed", arg |-> e]
\* the messages a host sends in the model
HostMsgs ==
    {MsgInitialized, MsgReady, MsgFailed("invalid player state"),
     MsgPlayerStateChange("Playing"), MsgPlayerStateChange("Paused")}

\* ------------------------------------------------------ component::PlayerState
NoToken == "none"
ClosureReady == "closure_ready"
ClosureStateChange == "closure_state_change"
NoErr == [msg |-> "-", state |-> "-"]

Uninitialized == [tag |-> "Uninitialized", held |-> NoToken, err |-> NoErr, stale |-> <<>>]
Initialized(tok) == [tag |-> "Initialized", held |-> tok, err |-> NoErr, stale |-> <<>>]
Ready(tok) == [tag |-> "Ready", held |-> tok, err |-> NoErr, stale |-> <<>>]
Failed(m, st, toks) ==
    [tag |-> "Failed", held |-> NoToken, err |-> [msg |-> m, state |-> st], stale |-> toks]

StateTags == {"Uninitialized", "Initialized", "Ready", "Failed"}

\* calls to the widget binding (ext.rs:149-166)
CallNew == [op |-> "new", event |-> "-", token |-> NoToken]
CallAdd(ev, tok) == [op |-> "add", event |-> ev, token |-> tok]
CallRemove(ev, tok) == [op |-> "remove", event |-> ev, token |-> tok]

\* the result of a transition: the next state, the binding calls made in
\* order, and the values emitted to props.on_state_change
Result(s, cs, cb) == [state |-> s, calls |-> cs, cb |-> cb]

\* variant: an unexpected message is ignored instead of failing
TransUninitializedIgnores(s, m) ==
    IF m.kind = "Initialized"
    THEN Result(Initialized(ClosureReady),
                <<CallNew, CallAdd("onReady", ClosureReady)>>, <<>>)
    ELSE Result(s, <<>>, <<>>)

\* impl FsmState for Uninitialized
TransUninitialized(s, m) ==
    IF m.kind = "Initialized"
    THEN Result(Initialized(ClosureReady),
                <<CallNew, CallAdd("onReady", ClosureReady)>>, <<>>)
    ELSE Result(Failed(m, "Uninitialized", <<>>), <<>>, <<>>)

\* variant: the failure arm forgets the ready closure
TransInitializedDropsToken(s, m) ==
    IF m.kind = "Ready"
    THEN Result(Ready(ClosureStateChange),
                <<CallAdd("onStateChange", ClosureStateChange),
                  CallRemove("onReady", s.held)>>, <<>>)
    ELSE Result(Failed(m, "Initialized", <<>>), <<>>, <<>>)

\* variant: a repeated Initialized message constructs the widget again
TransInitializedReconstructs(s, m) ==
    CASE m.kind = "Ready" ->
           Result(Ready(ClosureStateChange),
                  <<CallAdd("onStateChange", ClosureStateChange),
                    CallRemove("onReady", s.held)>>, <<>>)
      [] m.kind = "Initialized" ->
           Result(Initialized(ClosureReady),
                  <<CallNew, CallAdd("onReady", ClosureReady)>>, <<>>)
      [] OTHER -> Result(Failed(m, "Initialized", <<s.held>>), <<>>, <<>>)

\* impl FsmState for Initialized
TransInitialized(s, m) ==
    IF m.kind = "Ready"
    THEN Result(Ready(ClosureStateChange),
                <<CallAdd("onStateChange", ClosureStateChange),
                  CallRemove("onReady", s.held)>>, <<>>)
    ELSE Result(Failed(m, "Initialized", <<s.held>>), <<>>, <<>>)

\* variant: the state change is not forwarded to the host callback
TransReadySilent(s, m, hasCb) ==
    IF m.kind = "PlayerStateChange"
    THEN Result(s, <<>>, <<>>)
    ELSE Result(Failed(m, "Ready", <<s.held>>),
                <<CallRemove("onStateChange", s.held)>>, <<>>)

\* variant: a translation failure is dropped and the component stays Ready
TransReadyDropsFailed(s, m, hasCb) ==
    CASE m.kind = "PlayerStateChange" ->
           Result(s, <<>>, IF hasCb THEN <<m.arg>> ELSE <<>>)
      [] m.kind = "Failed" -> Result(s, <<>>, <<>>)
      [] OTHER -> Result(Failed(m, "Ready", <<s.held>>),
                         <<CallRemove("onStateChange", s.held)>>, <<>>)

\* variant: the state change is forwarded to the host callback twice
TransReadyTwice(s, m, hasCb) ==
    IF m.kind = "PlayerStateChange"
    THEN Result(s, <<>>, IF hasCb THEN <<m.arg, m.arg>> ELSE <<>>)
    ELSE Result(Failed(m, "Ready", <<s.held>>),
                <<CallRemove("onStateChange", s.held)>>, <<>>)

\* impl FsmState for Ready; hasCb is props.on_state_change.is_some()
TransReady(s, m, hasCb) ==
    IF m.kind = "PlayerStateChange"
    THEN Result(s, <<>>, IF hasCb THEN <<m.arg>> ELSE <<>>)
    ELSE Result(Failed(m, "Ready", <<s.held>>),
                <<CallRemove("onStateChange", s.held)>>, <<>>)

\* variant: a failed component reports the latest message
TransFailedOverwrites(s, m) == Result(Failed(m, "Failed", s.stale), <<>>, <<>>)

\* variant: a failed component still forwards state changes to the host
TransFailedForwards(s, m) ==
    Result(s, <<>>, IF m.kind = "PlayerStateChange" THEN <<m.arg>> ELSE <<>>)

\* variant: a failed component starts over on Initialized
TransFailedRetries(s, m) ==
    IF m.kind = "Initialized" THEN Result(Uninitialized, <<>>, <<>>)
    ELSE Result(s, <<>>, <<>>)

\* impl FsmState for Failed
TransFailed(s, m) == Result(s, <<>>, <<>>)

\* impl FsmState for PlayerState
Transition(s, m, hasCb) ==
    CASE s.tag = "Uninitialized" -> TransUninitialized(s, m)
      [] s.tag = "Initialized" -> TransInitialized(s, m)
      [] s.tag = "Ready" -> TransReady(s, m, hasCb)
      [] s.tag = "Failed" -> TransFailed(s, m)

\* variant: every update renders the component again
ShouldRenderAlways(s) == s.tag \in StateTags

\* the value update returns: whether the component is rendered again
ShouldRender(s) == s.tag = "Failed"

\* variant: the placeholder is rendered only once the widget is expected
ViewLate(s) ==
    CASE s.tag = "Failed" -> "error"
      [] s.tag = "Uninitialized" -> "none"
      [] OTHER -> "placeholder"

\* Player::view: the error span when Failed, else the wrapper around the
\* placeholder element the widget is constructed on
View(s) == IF s.tag = "Failed" THEN "error" ELSE "placeholder"

\* ------------------------------------------------------------------- state
VARIABLES
    life,        \* per component: "none", "live" (created), "disposed"
    hasCb,       \* per component: props.on_state_change is Some
    state,       \* per component: Player.state
    gate,        \* per component: position of its yt_iframe_api_ready future
    script,      \* per component: the <script> element its gate call appended
    injected,    \* number of <script> elements appended to the document
    yt,          \* window.YT exists and has Player
    handler,     \* owners of the closure in window.onYouTubeIframeAPIReady
    removeWorks, \* whether the widget's removeEventListener has any effect
    calls,       \* per component: the binding calls made so far, in order
    readyFired,  \* per component: the Closure::once of onReady was invoked
    cbLog,       \* per component: values emitted to props.on_state_change
    lastUpd,     \* the Player::update call of the latest turn, if any
    lastTr,      \* the payload translation of the latest turn, if any
    dom,         \* per component: what its latest render left in the document
    lastOpt,     \* the construction options built from a configuration
    events,      \* onStateChange events fired so far
    hostSent     \* messages sent by hosts so far

vars == <<life, hasCb, state, gate, script, injected, yt, handler, removeWorks,
          calls, readyFired, cbLog, lastUpd, lastTr, dom, lastOpt, events, hostSent>>

NoUpd ==
    [ctrl |-> 0, msg |-> MsgInitialized, from |-> Uninitialized, rerender |-> FALSE]
NoTr == [via |-> "none", in |-> Undef, out |-> Err("-")]

InitProgram ==
    /\ life = [c \in Ctrls |-> "none"]
    /\ hasCb = [c \in Ctrls |-> FALSE]
    /\ state = [c \in Ctrls |-> Uninitialized]
    /\ gate = [c \in Ctrls |-> "idle"]
    /\ script = [c \in Ctrls |-> "none"]
    /\ injected = 0
    /\ yt = FALSE
    /\ handler = {}
    /\ removeWorks \in BOOLEAN
    /\ calls = [c \in Ctrls |-> <<>>]
    /\ readyFired = [c \in Ctrls |-> FALSE]
    /\ cbLog = [c \in Ctrls |-> <<>>]
    /\ lastUpd = NoUpd
    /\ dom = [c \in Ctrls |-> "none"]
    /\ events = 0
    /\ hostSent = 0

NoOpt == [at |-> "none"]

Init ==
    /\ InitProgram
    /\ lastTr = NoTr
    /\ lastOpt = NoOpt

\* the listeners registered on a widget after a sequence of binding calls
RECURSIVE Registered(_, _)
Registered(log, works) ==
    IF log = <<>> THEN {}
    ELSE LET before == Registered(SubSeq(log, 1, Len(log) - 1), works)
             c == log[Len(log)]
             l == [event |-> c.event, token |-> c.token]
         IN CASE c.op = "add" -> before \cup {l}
              [] c.op = "remove" -> IF works THEN before \ {l} ELSE before
              [] OTHER -> before

Listeners(c) == Registered(calls[c], removeWorks)

\* Player::update
Update(c, m) ==
    LET r == Transition(state[c], m, hasCb[c])
    IN /\ state' = [state EXCEPT ![c] = r.state]
       /\ calls' = [calls EXCEPT ![c] = @ \o r.calls]
       /\ cbLog' = [cbLog EXCEPT ![c] = @ \o r.cb]
       /\ lastUpd' = [ctrl |-> c, msg |-> m, from |-> state[c],
                       rerender |-> ShouldRender(r.state)]
       /\ dom' = IF ShouldRender(r.state)
                 THEN [dom EXCEPT ![c] = View(r.state)]
                 ELSE dom

NoUpdate ==
    /\ UNCHANGED <<state, calls, cbLog>>
    /\ lastUpd' = NoUpd

\* a turn in which no component is updated or rendered
Idle == NoUpdate /\ UNCHANGED dom

\* variant: the create callback acts on the component whether alive or not
LinkAlways(c) == life[c] # "none"

\* a callback made from ctx.link(): its message reaches update only while
\* the component is alive
LinkAlive(c) == life[c] = "live"

Emit(c, m) == IF LinkAlive(c) THEN Update(c, m) ELSE Idle

\* Player::create and the first render, made in the same turn, before the
\* future that create spawned is first polled
Create(c) ==
    /\ life[c] = "none"
    /\ \A d \in Ctrls : d < c => life[d] # "none"
    /\ life' = [life EXCEPT ![c] = "live"]
    /\ \E b \in BOOLEAN : hasCb' = [hasCb EXCEPT ![c] = b]
    /\ gate' = [gate EXCEPT ![c] = "called"]
    /\ dom' = [dom EXCEPT ![c] = View(Uninitialized)]
    /\ NoUpdate
    /\ lastTr' = NoTr
    /\ UNCHANGED <<script, injected, yt, handler, removeWorks, readyFired,
                   events, hostSent, lastOpt>>

\* the component is destroyed by its host and its elements are removed;
\* Player has no destroy()
Dispose(c) ==
    /\ life[c] = "live"
    /\ life' = [life EXCEPT ![c] = "disposed"]
    /\ dom' = [dom EXCEPT ![c] = "none"]
    /\ NoUpdate
    /\ lastTr' = NoTr
    /\ UNCHANGED <<hasCb, gate, script, injected, yt, handler, removeWorks,
                   readyFired, events, hostSent, lastOpt>>

\* yt_iframe_api_ready up to its first await, load_iframe_api up to its await
GateStart(c) ==
    /\ gate[c] = "called"
    /\ IF yt
       THEN /\ gate' = [gate EXCEPT ![c] = "ok"]
            /\ Emit(c, MsgInitialized)
            /\ UNCHANGED <<script, injected>>
       ELSE /\ gate' = [gate EXCEPT ![c] = "awaitLoad"]
            /\ script' = [script EXCEPT ![c] = "loading"]
            /\ injected' = injected + 1
            /\ Idle
    /\ lastTr' = NoTr
    /\ UNCHANGED <<life, hasCb, yt, handler, removeWorks, readyFired,
                   events, hostSent, lastOpt>>

\* the script's load event: load_iframe_api returns, yt_iframe_api_ready
\* installs its closure as window.onYouTubeIframeAPIReady and awaits it
ScriptLoad(c) ==
    /\ script[c] = "loading"
    /\ script' = [script EXCEPT ![c] = "loaded"]
    /\ gate' = [gate EXCEPT ![c] = "awaitReady"]
    /\ handler' = {c}
    /\ Idle
    /\ lastTr' = NoTr
    /\ UNCHANGED <<life, hasCb, injected, yt, removeWorks, readyFired,
                   events, hostSent, lastOpt>>

\* the script fails to load: no onerror handler is set, nothing runs
ScriptError(c) ==
    /\ script[c] = "loading"
    /\ script' = [script EXCEPT ![c] = "failed"]
    /\ Idle
    /\ lastTr' = NoTr
    /\ UNCHANGED <<life, hasCb, gate, injected, yt, handler, removeWorks,
                   readyFired, events, hostSent, lastOpt>>

\* the foreign API defines YT.Player and calls window.onYouTubeIframeAPIReady,
\* once; the closure's owner resumes and its create callback emits
ApiReady ==
    /\ ~yt
    /\ \E c \in Ctrls : script[c] = "loaded"
    /\ yt' = TRUE
    /\ IF \E h \in handler : gate[h] = "awaitReady"
       THEN \E h \in handler :
                /\ gate' = [gate EXCEPT ![h] = "ok"]
                /\ Emit(h, MsgInitialized)
       ELSE /\ UNCHANGED gate
            /\ Idle
    /\ lastTr' = NoTr
    /\ UNCHANGED <<life, hasCb, script, injected, handler, removeWorks,
                   readyFired, events, hostSent, lastOpt>>

\* a closure no longer referenced by window.onYouTubeIframeAPIReady is
\* collected: its sender drops, the receiver yields Canceled, the gate
\* returns Err, and create's map(|_| ...) emits all the same
Finalize(c) ==
    /\ gate[c] = "awaitReady"
    /\ c \notin handler
    /\ gate' = [gate EXCEPT ![c] = "err"]
    /\ Emit(c, MsgInitialized)
    /\ lastTr' = NoTr
    /\ UNCHANGED <<life, hasCb, script, injected, yt, handler, removeWorks,
                   readyFired, events, hostSent, lastOpt>>

\* the widget fires onReady: closure_ready emits Msg::Ready
WidgetReadyEvent(c) ==
    /\ LinkAlive(c)
    /\ [event |-> "onReady", token |-> ClosureReady] \in Listeners(c)
    /\ ~readyFired[c]
    /\ readyFired' = [readyFired EXCEPT ![c] = TRUE]
    /\ Emit(c, MsgReady)
    /\ lastTr' = NoTr
    /\ UNCHANGED <<life, hasCb, gate, script, injected, yt, handler, removeWorks,
                   events, hostSent, lastOpt>>

\* the widget fires onStateChange: closure_state_change translates the
\* payload and emits PlayerStateChange or Failed
WidgetStateEvent(c, p) ==
    /\ LinkAlive(c)
    /\ [event |-> "onStateChange", token |-> ClosureStateChange] \in Listeners(c)
    /\ events < MaxEvents
    /\ events' = events + 1
    /\ LET r == TryFrom(p)
       IN /\ lastTr' = [via |-> "try_from", in |-> p, out |-> r]
          /\ Emit(c, IF r.ok THEN MsgPlayerStateChange(r.v) ELSE MsgFailed(r.v))
    /\ UNCHANGED <<life, hasCb, gate, script, injected, yt, handler, removeWorks,
                   readyFired, hostSent, lastOpt>>

\* the host sends a message through the component's scope
HostSend(c, m) ==
    /\ LinkAlive(c)
    /\ hostSent < MaxHostMsgs
    /\ hostSent' = hostSent + 1
    /\ Emit(c, m)
    /\ lastTr' = NoTr
    /\ UNCHANGED <<life, hasCb, gate, script, injected, yt, handler, removeWorks,
                   readyFired, events, lastOpt>>

Next ==
    \/ \E c \in Ctrls : Create(c)
    \/ \E c \in Ctrls : Dispose(c)
    \/ \E c \in Ctrls : GateStart(c)
    \/ \E c \in Ctrls : ScriptLoad(c)
    \/ \E c \in Ctrls : ScriptError(c)
    \/ ApiReady
    \/ \E c \in Ctrls : Finalize(c)
    \/ \E c \in Ctrls : WidgetReadyEvent(c)
    \/ \E c \in Ctrls, p \in EventPayloads : WidgetStateEvent(c, p)

NextFsm ==
    \/ \E c \in Ctrls : Create(c)
    \/ \E c \in Ctrls, m \in HostMsgs : HostSend(c, m)

\* the program driven by the browser alone
Spec == Init /\ [][Next]_vars

\* the components driven by arbitrary messages, as a test of update would
SpecFsm == Init /\ [][NextFsm]_vars

\* the browser delivers what is pending: spawned futures are polled, a
\* script that is loading loads or fails, the API signals once it is loaded
FairSpec ==
    /\ Spec
    /\ \A c \in Ctrls : WF_vars(GateStart(c))
    /\ \A c \in Ctrls : WF_vars(ScriptLoad(c) \/ ScriptError(c))
    /\ WF_vars(ApiReady)

\* -------------------------------------------------- the translations alone
InitTr ==
    /\ InitProgram
    /\ lastOpt = NoOpt
    /\ \E p \in Payloads : lastTr = [via |-> "pending", in |-> p, out |-> Err("-")]

\* a payload is handed to try_from
TranslateEvent ==
    /\ lastTr.via = "pending"
    /\ lastTr' = [lastTr EXCEPT !.via = "try_from", !.out = TryFrom(lastTr.in)]
    /\ UNCHANGED <<life, hasCb, state, gate, script, injected, yt, handler,
                   removeWorks, calls, readyFired, cbLog, lastUpd, dom, events, hostSent, lastOpt>>

\* the i32 that getPlayerState returned is handed to get_player_state
TranslateQuery ==
    /\ lastTr.via = "pending"
    /\ IsInteger(lastTr.in)
    /\ lastTr' = [lastTr EXCEPT !.via = "get_player_state",
                                !.out = GetPlayerState(AsI32(lastTr.in))]
    /\ UNCHANGED <<life, hasCb, state, gate, script, injected, yt, handler,
                   removeWorks, calls, readyFired, cbLog, lastUpd, dom, events, hostSent, lastOpt>>

NextTr == TranslateEvent \/ TranslateQuery

SpecTr == InitTr /\ [][NextTr]_vars

\* ------------------------------------------------- the options alone
\* an Option: None is the empty sequence, Some(v) the sequence of v
None == <<>>
Some(v) == <<v>>
OptionOf(S) == {None} \cup {Some(v) : v \in S}

\* component::Props without the callback
Configs ==
    [video_id : {"r71Nhzh0xMU"}, width : OptionOf(1..MaxDim),
     height : OptionOf(1..MaxDim), autoplay : OptionOf(BOOLEAN)]

\* a field under skip_serializing_if = "Option::is_none": no key for None
Field(key, opt) == IF opt = None THEN <<>> ELSE key :> opt[1]

\* autoplay.map(|x| if x { 1 } else { 0 })
AutoplayFlag(opt) == IF opt = None THEN None ELSE Some(IF opt[1] THEN 1 ELSE 0)

\* ext::PlayerVars { autoplay, ..Default::default() }, serialized
PlayerVarsOf(p) ==
    Field("autoplay", AutoplayFlag(p.autoplay)) @@ Field("controls", None)
        @@ Field("enablejsapi", None) @@ Field("fs", None)
        @@ Field("iv_load_policy", None) @@ Field("modestbranding", None)
        @@ Field("playsinline", None) @@ Field("rel", None)
        @@ Field("showinfo", None) @@ Field("start", None) @@ Field("end", None)
        @@ Field("origin", None) @@ Field("widget_referrer", None)

\* variant: width and height exchanged
OptionsOfSwapped(p) ==
    Field("height", p.width) @@ Field("width", p.height)
        @@ Field("videoId", Some(p.video_id))
        @@ Field("playerVars", Some(PlayerVarsOf(p)))

\* the ext::Options that Uninitialized::transition builds, serialized
OptionsOf(p) ==
    Field("height", p.height) @@ Field("width", p.width)
        @@ Field("videoId", Some(p.video_id))
        @@ Field("playerVars", Some(PlayerVarsOf(p)))

InitOpt ==
    /\ InitProgram
    /\ lastTr = NoTr
    /\ \E p \in Configs : lastOpt = [at |-> "pending", props |-> p]

\* the options of a configuration are built and serialized
BuildOptions ==
    /\ lastOpt.at = "pending"
    /\ lastOpt' = [at |-> "built", props |-> lastOpt.props,
                   out |-> OptionsOf(lastOpt.props)]
    /\ UNCHANGED <<life, hasCb, state, gate, script, injected, yt, handler,
                   removeWorks, calls, readyFired, cbLog, lastUpd, lastTr, dom,
                   events, hostSent>>

NextOpt == BuildOptions

SpecOpt == InitOpt /\ [][NextOpt]_vars

\* ================================================================== claims
Updated(c) == lastUpd.ctrl = c
Resolved(c) == gate[c] \in {"ok", "err"}

\* the transition table of the controller: the successor of a state on a
\* message kind, every pair not listed failing
TableNext(tag, kind) ==
    CASE tag = "Uninitialized" /\ kind = "Initialized" -> "Initialized"
      [] tag = "Initialized" /\ kind = "Ready" -> "Ready"
      [] tag = "Ready" /\ kind = "PlayerStateChange" -> "Ready"
      [] OTHER -> "Failed"

\* C1: in every state and for every message, update leaves the component in
\* one of the four states, and that state is the successor the transition
\* table lists for the pair, or Failed.
C1_TransitionTotal ==
    /\ \A c \in Ctrls : state[c].tag \in StateTags
    /\ \A c \in Ctrls :
         Updated(c) =>
           state[c].tag \in {TableNext(lastUpd.from.tag, lastUpd.msg.kind), "Failed"}

C1_Witness ==
    \E c \in Ctrls :
        /\ Updated(c)
        /\ lastUpd.from.tag = "Uninitialized"
        /\ lastUpd.msg.kind = "PlayerStateChange"
        /\ state[c].tag = "Failed"

\* C2: once a component is Failed, every further message leaves it Failed
\* with the same reason and the same retained closures.
C2_FailedAbsorbing ==
    [][\A c \in Ctrls : state[c].tag = "Failed" => state'[c] = state[c]]_vars

C2_Witness ==
    \E c \in Ctrls :
        /\ Updated(c)
        /\ lastUpd.from.tag = "Failed"
        /\ lastUpd.msg # lastUpd.from.err.msg
        /\ state[c].stale = <<ClosureStateChange>>

\* the listeners on a component's widget after its first k binding calls
ListenersAfter(c, k) == Registered(SubSeq(calls[c], 1, k), removeWorks)
OfEvent(ls, ev) == {l \in ls : l.event = ev}

\* C3: after each single binding call, the widget has at most one onReady
\* listener, at most one onStateChange listener, and never one of each.
C3_ListenersExclusive ==
    \A c \in Ctrls : \A k \in 0..Len(calls[c]) :
        LET ls == ListenersAfter(c, k)
        IN /\ Cardinality(OfEvent(ls, "onReady")) <= 1
           /\ Cardinality(OfEvent(ls, "onStateChange")) <= 1
           /\ OfEvent(ls, "onReady") = {} \/ OfEvent(ls, "onStateChange") = {}

\* C4: whatever the interleaving of gate calls, at most one script element
\* is ever injected.
C4_SingleInjection == injected <= 1

\* C5: every call of the gate eventually returns, provided no script fails
\* to load (the API signals readiness once a script has loaded).
C5_EveryCallResolves ==
    \A c \in Ctrls :
        (gate[c] = "called") ~> (Resolved(c) \/ \E d \in Ctrls : script[d] = "failed")

\* C6: a component whose gate call failed (its script failed to load, or the
\* gate returned Err) constructs no widget, registers no listener and is
\* never Initialized or Ready.
C6_GateFailureStopsController ==
    \A c \in Ctrls :
        (gate[c] = "err" \/ script[c] = "failed") =>
            /\ calls[c] = <<>>
            /\ state[c].tag \in {"Uninitialized", "Failed"}

\* C7: while its gate call is pending a component has made no binding call,
\* and a disposed component never makes one: a gate that resolves after the
\* disposal constructs no widget and registers no listener.
C7_DisposedGateNoOp ==
    [][\A c \in Ctrls :
          /\ ~Resolved(c) => calls[c] = <<>>
          /\ life[c] = "disposed" => calls'[c] = calls[c] /\ state'[c] = state[c]]_vars

C7_Witness ==
    \E c \in Ctrls :
        /\ life[c] = "disposed"
        /\ Resolved(c)
        /\ calls[c] = <<>>
        /\ state[c].tag = "Uninitialized"

\* C8: Initialized moves Uninitialized to Initialized, Ready moves that to
\* Ready, both without a host callback; PlayerStateChange(s) in Ready keeps
\* Ready and invokes the supplied host callback once more, with s: after
\* Initialized, Ready, PlayerStateChange(Playing) the callback has been
\* invoked exactly once, with Playing.
C8_Scenario ==
    [][\A c \in Ctrls :
          /\ state[c].tag \in {"Uninitialized", "Initialized"} => cbLog[c] = <<>>
          /\ (lastUpd'.ctrl = c /\ lastUpd'.from = state[c]) =>
               /\ (state[c].tag = "Uninitialized" /\ lastUpd'.msg = MsgInitialized) =>
                    state'[c].tag = "Initialized" /\ cbLog'[c] = <<>>
               /\ (state[c].tag = "Initialized" /\ lastUpd'.msg = MsgReady) =>
                    state'[c].tag = "Ready" /\ cbLog'[c] = <<>>
               /\ (state[c].tag = "Ready" /\ lastUpd'.msg.kind = "PlayerStateChange") =>
                    /\ state'[c].tag = "Ready"
                    /\ hasCb[c] => cbLog'[c] = Append(cbLog[c], lastUpd'.msg.arg)]_vars

C8_Witness ==
    \E c \in Ctrls :
        /\ Updated(c)
        /\ lastUpd.from.tag = "Ready"
        /\ lastUpd.msg = MsgPlayerStateChange("Playing")
        /\ hasCb[c]
        /\ state[c].tag = "Ready"
        /\ cbLog[c] = <<"Playing">>

\* C9: a transition into Failed retains exactly the closure held by the
\* state left: none from Uninitialized, the ready closure from Initialized,
\* the state-change closure from Ready.
C9_FailureRetainsToken ==
    \A c \in Ctrls :
        (Updated(c) /\ lastUpd.from.tag # "Failed" /\ state[c].tag = "Failed") =>
            state[c].stale =
                CASE lastUpd.from.tag = "Uninitialized" -> <<>>
                  [] lastUpd.from.tag = "Initialized" -> <<ClosureReady>>
                  [] lastUpd.from.tag = "Ready" -> <<ClosureStateChange>>

C9_Witness ==
    \E c \in Ctrls :
        /\ Updated(c)
        /\ lastUpd.from.tag = "Initialized"
        /\ lastUpd.msg = MsgInitialized
        /\ state[c].tag = "Failed"
        /\ state[c].stale = <<ClosureReady>>

\* the foreign codes and their playback states
CodeTable ==
    (-1 :> "Unstarted") @@ (0 :> "Ended") @@ (1 :> "Playing") @@ (2 :> "Paused")
        @@ (3 :> "Buffering") @@ (5 :> "Cued")

KnownCode(p) == p.t = "num" /\ (p.h \div 2) \in DOMAIN CodeTable

\* C10: an integer code translates to the playback state the table gives it;
\* every other integer yields the translation error from try_from, and no
\* playback state from get_player_state.
C10_Translation ==
    (lastTr.via \in {"try_from", "get_player_state"} /\ IsInteger(lastTr.in)) =>
        IF KnownCode(lastTr.in)
        THEN lastTr.out = Ok(CodeTable[lastTr.in.h \div 2])
        ELSE /\ ~lastTr.out.ok
             /\ lastTr.via = "try_from" => lastTr.out = Err("invalid player state")

C10_Witness ==
    /\ lastTr.via = "try_from"
    /\ lastTr.in = Num(2 * 4)
    /\ lastTr.out = Err("invalid player state")

\* the turn that leads to the primed state is an onStateChange event
\* delivered to component c
EventFor(c) == lastTr'.via = "try_from" /\ lastUpd'.ctrl = c

\* C11: an onStateChange event whose code is outside the enumeration,
\* delivered to a Ready component, leaves it Failed and invokes no host
\* callback.
C11_UnknownCodeFails ==
    [][\A c \in Ctrls :
          (EventFor(c) /\ state[c].tag = "Ready"
              /\ IsInteger(lastTr'.in) /\ ~KnownCode(lastTr'.in)) =>
            /\ state'[c].tag = "Failed"
            /\ cbLog'[c] = cbLog[c]]_vars

C11_Witness ==
    \E c \in Ctrls :
        /\ lastTr.via = "try_from"
        /\ lastTr.in = Num(2 * 4)
        /\ Updated(c)
        /\ lastUpd.from.tag = "Ready"
        /\ lastUpd.msg.kind = "Failed"
        /\ state[c].tag = "Failed"

\* C12: each onStateChange event with a known code delivered to a Ready
\* component with a host callback appends exactly its translated state to
\* the callback's invocations, and nothing else changes them: they are the
\* recognized events, one each, in arrival order.
C12_OneCallbackPerEvent ==
    [][\A c \in Ctrls :
          /\ (EventFor(c) /\ state[c].tag = "Ready" /\ hasCb[c]
                 /\ KnownCode(lastTr'.in)) =>
               cbLog'[c] = Append(cbLog[c], CodeTable[lastTr'.in.h \div 2])
          /\ cbLog'[c] # cbLog[c] =>
               EventFor(c) /\ state[c].tag = "Ready" /\ lastTr'.out.ok]_vars

C12_Witness ==
    \E c \in Ctrls :
        /\ lastTr.via = "try_from"
        /\ lastTr.in = Num(2 * 1)
        /\ Updated(c)
        /\ state[c].tag = "Ready"
        /\ cbLog[c] = <<"Paused", "Playing">>

\* C13 (as claimed): update asks for a render only when its message makes
\* the component enter Failed; a message handled while already Failed asks
\* for none.
C13_RenderOnEntryOnly ==
    \A c \in Ctrls :
        Updated(c) =>
            (lastUpd.rerender <=> (lastUpd.from.tag # "Failed" /\ state[c].tag = "Failed"))

\* C13 (amended): update asks for a render exactly when the component is
\* Failed after the message, on entry to Failed and on every message handled
\* while Failed; a message that leaves it Uninitialized, Initialized or
\* Ready asks for none.
C13_RenderWhenFailed ==
    \A c \in Ctrls :
        Updated(c) =>
            /\ lastUpd.rerender <=> state[c].tag = "Failed"
            /\ dom[c] = IF state[c].tag = "Failed" THEN "error" ELSE "placeholder"

C13_Witness ==
    \E c \in Ctrls :
        /\ Updated(c)
        /\ lastUpd.from.tag = "Failed"
        /\ lastUpd.rerender

\* C14: once a component is disposed, no listener of it remains registered
\* on its widget.
C14_DisposeDeregisters ==
    \A c \in Ctrls : life[c] = "disposed" => Listeners(c) = {}

\* the update of the turn constructed component c's widget
Constructs(c) ==
    /\ Len(calls'[c]) > Len(calls[c])
    /\ calls'[c][Len(calls[c]) + 1] = CallNew

\* C15: whenever a component constructs its widget, its placeholder element
\* is in the document, also when the gate resolved on its fast path.
C15_MountPointPresent ==
    [][\A c \in Ctrls : Constructs(c) => dom[c] = "placeholder"]_vars

C15_Witness ==
    \E c \in Ctrls :
        /\ Updated(c)
        /\ lastUpd.msg = MsgInitialized
        /\ lastUpd.from.tag = "Uninitialized"
        /\ script[c] = "none"
        /\ gate[c] = "ok"
        /\ calls[c] = <<CallNew, CallAdd("onReady", ClosureReady)>>

\* C16: the options carry autoplay as 1 for true, 0 for false and not at
\* all when unset; width and height as configured, or not at all when
\* unset; and always the video id.
C16_Options ==
    lastOpt.at = "built" =>
        LET p == lastOpt.props
            o == lastOpt.out
            pv == o["playerVars"]
        IN /\ "videoId" \in DOMAIN o /\ o["videoId"] = p.video_id
           /\ "width" \in DOMAIN o <=> p.width # None
           /\ p.width # None => o["width"] = p.width[1]
           /\ "height" \in DOMAIN o <=> p.height # None
           /\ p.height # None => o["height"] = p.height[1]
           /\ "autoplay" \in DOMAIN pv <=> p.autoplay # None
           /\ p.autoplay = Some(TRUE) => pv["autoplay"] = 1
           /\ p.autoplay = Some(FALSE) => pv["autoplay"] = 0

C16_Witness ==
    /\ lastOpt.at = "built"
    /\ lastOpt.props.autoplay = Some(TRUE)
    /\ lastOpt.props.width = None
    /\ lastOpt.props.height = Some(2)
    /\ DOMAIN lastOpt.out = {"height", "videoId", "playerVars"}
    /\ DOMAIN lastOpt.out["playerVars"] = {"autoplay"}

ReadyListener == [event |-> "onReady", token |-> ClosureReady]

\* the component has left Initialized, for Ready or for Failed
LeftInitialized(c) ==
    \/ state[c].tag = "Ready"
    \/ state[c].tag = "Failed" /\ state[c].err.state \in {"Initialized", "Ready"}

\* C17: once a component has left Initialized, by Ready or by any other
\* message, its ready listener is no longer registered on the widget
\* (wherever the widget's removal of listeners takes effect at all).
C17_ReadyListenerGone ==
    \A c \in Ctrls :
        (removeWorks /\ LeftInitialized(c)) => ReadyListener \notin Listeners(c)

\* C18: the host callback is invoked only in a turn that hands a
\* PlayerStateChange message to a Ready component: never before Ready is
\* reached, never once the component is Failed.
C18_CallbackOnlyInReady ==
    [][\A c \in Ctrls :
          cbLog'[c] # cbLog[c] =>
            /\ state[c].tag = "Ready"
            /\ state'[c].tag = "Ready"
            /\ lastUpd'.ctrl = c
            /\ lastUpd'.msg.kind = "PlayerStateChange"]_vars

C18_Witness ==
    \E c \in Ctrls :
        /\ lastTr.via = "try_from"
        /\ lastTr.out.ok
        /\ Updated(c)
        /\ lastUpd.from.tag = "Failed"
        /\ hasCb[c]
        /\ cbLog[c] = <<>>

\* the number of constructor calls among a component's binding calls
Constructed(c) == Cardinality({k \in 1..Len(calls[c]) : calls[c][k] = CallNew})

\* C19: a component constructs at most one widget, whatever messages it
\* receives.
C19_OneWidget == \A c \in Ctrls : Constructed(c) <= 1

C19_Witness ==
    \E c \in Ctrls :
        /\ Updated(c)
        /\ lastUpd.msg = MsgInitialized
        /\ lastUpd.from.tag = "Ready"
        /\ Constructed(c) = 1

\* the order of the states
Rank(tag) ==
    CASE tag = "Uninitialized" -> 0
      [] tag = "Initialized" -> 1
      [] tag = "Ready" -> 2
      [] tag = "Failed" -> 3

\* C20: a component's state never moves back in the order Uninitialized,
\* Initialized, Ready, Failed; Ready is entered only from Initialized on
\* Ready, Initialized only from Uninitialized on Initialized.
C20_ForwardOnly ==
    [][\A c \in Ctrls :
          /\ Rank(state'[c].tag) >= Rank(state[c].tag)
          /\ (state'[c].tag = "Ready" /\ state[c].tag # "Ready") =>
               state[c].tag = "Initialized" /\ lastUpd'.msg = MsgReady
          /\ (state'[c].tag = "Initialized" /\ state[c].tag # "Initialized") =>
               state[c].tag = "Uninitialized" /\ lastUpd'.msg = MsgInitialized]_vars

C20_Witness ==
    \E c \in Ctrls :
        /\ Updated(c)
        /\ lastUpd.from.tag = "Failed"
        /\ lastUpd.from.err.state = "Ready"
        /\ lastUpd.msg = MsgInitialized
        /\ state[c].tag = "Failed"

====
